---- MODULE Spec2Model ----
(***************************************************************************)
(* A model of the content filtering pipeline of the InfoFlow MCP server    *)
(* (src/filters.py): ContentFilter.filter_items and its seven stages.      *)
(*                                                                         *)
(* Numbers.  Scores and thresholds are floats in the source; here they are *)
(* fixed-point integers, One standing for 1.0 (0.5 is 5000, 0.35 is 3500). *)
(* Times are whole hours.  An Optional value is a set with at most one     *)
(* element: {} is None, {v} is the value v.                                *)
(*                                                                         *)
(* Text.  A string is represented by what the code observes of it: its     *)
(* whitespace tokens (a sequence of words), its length in characters,      *)
(* whether it is upper case, whether it holds a line break.  lower() and   *)
(* the substring test `kw in text` are tables over the vocabulary.         *)
(***************************************************************************)
EXTENDS Integers, Sequences, FiniteSets, TLC

\* The most items a caller passes to one filter_items call.
MaxItems == 2

\* Fixed-point 1.0: the upper end of the score domain (Field(le=1.0)).
One == 10000

----------------------------------------------------------------------------
(* Optional values and Python truthiness *)

None == {}

Some(v) == {v}

IsNone(x) == x = {}

Val(x) == CHOOSE v \in x : TRUE

\* Python's `x or d` for an Optional number: None and 0 are both falsy.
OrNum(x, d) == IF x = {} \/ x = {0} THEN d ELSE Val(x)

\* Python's `xs or ds` for a list: an unset and an empty list are both falsy.
OrList(xs, ds) == IF xs = <<>> THEN ds ELSE xs

Range(s) == {s[i] : i \in 1..Len(s)}

Min(a, b) == IF a <= b THEN a ELSE b

----------------------------------------------------------------------------
(* Text: the vocabulary, str.lower() and the substring test *)

Lower(w) ==
    CASE w = "AI" -> "ai"
      [] w = "Rain" -> "rain"
      [] w = "URGENT" -> "urgent"
      [] w = "DEAL" -> "deal"
      [] w = "Budget" -> "budget"
      [] w = "News" -> "news"
      [] OTHER -> w

LowerAll(ws) == [i \in 1..Len(ws) |-> Lower(ws[i])]

\* `kw in w` for two lower-case words of the vocabulary: equal words, or
\* "ai" inside "rain".
SubstringOf(kw, w) == kw = w \/ (kw = "ai" /\ w = "rain")

\* `kw in text` where text is the lower-cased f"{title} {content}" and kw a
\* single lower-case word: kw lies inside one of the tokens of the text.
InText(kw, tokens) == \E i \in 1..Len(tokens) : SubstringOf(kw, tokens[i])

----------------------------------------------------------------------------
(* The items a caller can pass: ContentItem objects as constructed by the  *)
(* caller, before any stage has touched them.  published is an absolute    *)
(* hour; the clock reads Clock0 when the model starts.                     *)

Clock0 == 24 * 100

ItemIds == {"a", "b", "c", "d", "e", "f"}

HoursAgo(h) == Some(Clock0 - h)

Catalog ==
    [ a |-> [title |-> <<"AI", "News">>, content |-> <<"ai", "models">>,
             title_len |-> 7, title_upper |-> FALSE,
             content_len |-> 300, content_nl |-> TRUE,
             source |-> Some("news"), url |-> Some("http://a"), url_http |-> TRUE,
             author |-> TRUE, tags |-> 2, published |-> HoursAgo(0),
             relevance_score |-> None, cos |-> 9000],
      b |-> [title |-> <<"Rain", "report">>, content |-> <<"weather">>,
             title_len |-> 11, title_upper |-> FALSE,
             content_len |-> 100, content_nl |-> FALSE,
             source |-> Some("blog"), url |-> None, url_http |-> FALSE,
             author |-> FALSE, tags |-> 0, published |-> HoursAgo(24),
             relevance_score |-> None, cos |-> 4000],
      c |-> [title |-> <<"URGENT", "DEAL">>, content |-> <<"ai", "deal">>,
             title_len |-> 11, title_upper |-> TRUE,
             content_len |-> 6000, content_nl |-> FALSE,
             source |-> Some("spam"), url |-> Some("ftp://c"), url_http |-> FALSE,
             author |-> TRUE, tags |-> 0, published |-> HoursAgo(25),
             relevance_score |-> Some(One), cos |-> -1000],
      d |-> [title |-> <<"Budget">>, content |-> <<"news", "budget">>,
             title_len |-> 6, title_upper |-> FALSE,
             content_len |-> 250, content_nl |-> TRUE,
             source |-> None, url |-> Some("http://d"), url_http |-> TRUE,
             author |-> FALSE, tags |-> 1, published |-> None,
             relevance_score |-> Some(0), cos |-> -1000],
      e |-> [title |-> <<"AI">>, content |-> <<"weather", "news">>,
             title_len |-> 2, title_upper |-> TRUE,
             content_len |-> 50, content_nl |-> FALSE,
             source |-> Some("blog"), url |-> Some("http://a"), url_http |-> TRUE,
             author |-> FALSE, tags |-> 0, published |-> HoursAgo(48),
             relevance_score |-> None, cos |-> 8000],
      f |-> [title |-> <<"ai", "news">>, content |-> <<"urgent", "budget">>,
             title_len |-> 7, title_upper |-> FALSE,
             content_len |-> 400, content_nl |-> TRUE,
             source |-> Some("news"), url |-> Some("http://f"), url_http |-> TRUE,
             author |-> TRUE, tags |-> 1, published |-> HoursAgo(744),
             relevance_score |-> Some(6000), cos |-> 6000] ]

\* The lower-cased tokens of f"{item.title} {item.content}".
TextTokens(id) == LowerAll(Catalog[id].title \o Catalog[id].content)

----------------------------------------------------------------------------
(* Configuration: FilterConfig, UserPreferences.topics_of_interest, and    *)
(* whether ContentFilter.__init__ loaded the embedding model.              *)

\* FilterConfig's defaults.
DefaultRelevanceThreshold == 7000

DefaultQualityThreshold == 6000

DefaultMaxAgeDays == 30

FilterConfig(rt, qt, age, pref, blocked, kws, topics, model) ==
    [relevance_threshold |-> rt, quality_threshold |-> qt, max_age_days |-> age,
     preferred_sources |-> pref, blocked_sources |-> blocked, keywords |-> kws,
     topics_of_interest |-> topics, model |-> model]

DefaultConfig(model) ==
    FilterConfig(DefaultRelevanceThreshold, DefaultQualityThreshold,
                 DefaultMaxAgeDays, <<>>, <<>>, <<>>, <<>>, model)

\* The configurations the model starts from: the defaults with and without
\* an embedding model, and two configured deployments.
Configs ==
    { DefaultConfig(FALSE), DefaultConfig(TRUE),
      FilterConfig(3000, 5000, 2, <<"news">>, <<"spam">>, <<>>, <<>>, FALSE),
      FilterConfig(0, 0, 2, <<>>, <<>>, <<"Rain">>, <<"AI">>, TRUE) }

----------------------------------------------------------------------------
(* FilterCriteria: every field Optional; an unset list is the empty list   *)
(* and an unset query the empty token sequence.                            *)

FilterCriteria(rt, qt, age, pref, blocked, kws, query) ==
    [relevance_threshold |-> rt, quality_threshold |-> qt, max_age_days |-> age,
     preferred_sources |-> pref, blocked_sources |-> blocked, keywords |-> kws,
     query |-> query]

Thresholds == {None, Some(0), Some(3000), Some(6000)}

QualityThresholds == {None, Some(0), Some(8000)}

\* The criteria a caller passes: every pair of thresholds with the rest
\* unset, every combination of source lists, keywords and query at a fixed
\* relevance threshold, and every age limit.
CriteriaSet ==
    { FilterCriteria(rt, qt, None, <<>>, <<>>, <<>>, <<>>) :
        rt \in Thresholds, qt \in QualityThresholds }
    \cup
    { FilterCriteria(Some(3000), None, None, pref, blocked, kws, q) :
        pref \in {<<>>, <<"news">>}, blocked \in {<<>>, <<"spam">>},
        kws \in {<<>>, <<"AI">>, <<"zzz">>, <<"ai", "News", "budget">>},
        q \in {<<>>, <<"AI", "news">>} }
    \cup
    { FilterCriteria(Some(3000), None, age, <<>>, <<>>, <<>>, <<>>) :
        age \in {Some(1), Some(2)} }

\* _default_criteria: the criteria built from the configuration.
default_criteria(cfg) ==
    FilterCriteria(Some(cfg.relevance_threshold), Some(cfg.quality_threshold),
                   Some(cfg.max_age_days), cfg.preferred_sources,
                   cfg.blocked_sources,
                   OrList(cfg.keywords, cfg.topics_of_interest), <<>>)

\* Every list of at most n distinct items.
RECURSIVE ListsUpTo(_)
ListsUpTo(n) ==
    IF n = 0 THEN {<<>>}
    ELSE LET shorter == ListsUpTo(n - 1)
             longest == {l \in shorter : Len(l) = n - 1}
         IN  shorter \cup
             UNION { {Append(l, id) : id \in ItemIds \ Range(l)} : l \in longest }

InputLists == ListsUpTo(MaxItems)

\* The annotations of the items as the caller constructed them.
FreshHeap ==
    [id \in ItemIds |-> [relevance_score |-> Catalog[id].relevance_score,
                         quality_score |-> None,
                         urgency_score |-> None]]

----------------------------------------------------------------------------
(* The stages of the pipeline.  A stage takes the working list (a sequence *)
(* of item ids) and the item annotations h, and yields the list it returns *)
(* and the annotations it leaves on the objects.                           *)

SetRelevance(h, id, v) == [h[id] EXCEPT !.relevance_score = Some(v)]

\* A date that excludes the cutoff itself.
OnOrAfter_Strict(published_date, cutoff_date) == published_date > cutoff_date

\* `item.published_date >= cutoff_date`
OnOrAfter(published_date, cutoff_date) == published_date >= cutoff_date

\* _filter_by_age: keep the undated items and those not older than the cutoff.
filter_by_age(list, crit, cfg, clock_now) ==
    LET max_age == OrNum(crit.max_age_days, cfg.max_age_days)
        cutoff_date == clock_now - 24 * max_age
        Recent(id) == IsNone(Catalog[id].published)
                      \/ OnOrAfter(Val(Catalog[id].published), cutoff_date)
    IN  SelectSeq(list, Recent)

\* `item.source in sources`: a missing source is in no list.
SourceIn(id, sources) ==
    /\ ~IsNone(Catalog[id].source)
    /\ Val(Catalog[id].source) \in sources

\* The relevance default of the source and keyword stages: `or 0.5`.
WorkingRelevance(score) == OrNum(score, 5000)

\* (score) * 0.7
Dampen(score) == (score * 7) \div 10

\* _filter_by_source: drop the blocked, dampen the not-preferred.
filter_by_source(h, list, crit, cfg) ==
    LET blocked == Range(OrList(crit.blocked_sources, cfg.blocked_sources))
        preferred == Range(OrList(crit.preferred_sources, cfg.preferred_sources))
        Kept(id) == ~SourceIn(id, blocked)
        Penalised(id) == preferred # {} /\ ~SourceIn(id, preferred)
    IN  [items |-> SelectSeq(list, Kept),
         heap |-> [id \in ItemIds |->
                     IF id \in Range(list) /\ Kept(id) /\ Penalised(id)
                     THEN SetRelevance(h, id,
                              Dampen(WorkingRelevance(h[id].relevance_score)))
                     ELSE h[id]]]

\* sum(1 for kw in keywords_lower if kw in text)
MatchCount(id, keywords_lower) ==
    Cardinality({k \in 1..Len(keywords_lower) :
                    InText(keywords_lower[k], TextTokens(id))})

\* (score) * (1.0 + match_count * 0.1)
Boost(score, match_count) == (score * (10 + match_count)) \div 10

\* The keyword stage without its fallback.
KeywordResult_NoFallback(matched, list) == matched

\* `return filtered if filtered else items`
KeywordResult(matched, list) == IF matched # <<>> THEN matched ELSE list

\* _filter_by_keywords: keep and boost the items that match a keyword.
filter_by_keywords(h, list, crit, cfg) ==
    LET keywords == OrList(crit.keywords, cfg.keywords)
        keywords_lower == LowerAll(keywords)
        Matches(id) == MatchCount(id, keywords_lower) > 0
    IN  IF keywords = <<>>
        THEN [items |-> list, heap |-> h]
        ELSE [items |-> KeywordResult(SelectSeq(list, Matches), list),
              heap |-> [id \in ItemIds |->
                          IF id \in Range(list) /\ Matches(id)
                          THEN SetRelevance(h, id,
                                   Boost(WorkingRelevance(h[id].relevance_score),
                                         MatchCount(id, keywords_lower)))
                          ELSE h[id]]]

\* The tokens of the reference text: query and interest topics, lower-cased.
ReferenceWords(crit, cfg) ==
    Range(LowerAll(crit.query \o cfg.topics_of_interest))

\* The cosine of the item's embedding and the reference's, as a float: the
\* embedding model is an external function of the two texts.
Cosine(id) == Catalog[id].cos

\* |reference & item words| / |reference | item words|, 0.0 for an empty union.
Jaccard(id, reference_words) ==
    LET item_words == Range(TextTokens(id))
        intersection == Cardinality(reference_words \cap item_words)
        union == Cardinality(reference_words \cup item_words)
    IN  IF union > 0 THEN (intersection * One) \div union ELSE 0

\* A fallback that scores only the items that have no score yet.
fallback_relevance_KeepSet(h, list, reference_words) ==
    [id \in ItemIds |->
        IF id \in Range(list) /\ IsNone(h[id].relevance_score)
        THEN SetRelevance(h, id, Jaccard(id, reference_words))
        ELSE h[id]]

\* _fallback_relevance: every item of the list gets its Jaccard score.
fallback_relevance(h, list, reference_words) ==
    [id \in ItemIds |->
        IF id \in Range(list)
        THEN SetRelevance(h, id, Jaccard(id, reference_words))
        ELSE h[id]]

\* The embedding loop over the first n items of the list.
EmbeddingScores(h, list, n) ==
    [id \in ItemIds |->
        IF \E i \in 1..n : list[i] = id
        THEN SetRelevance(h, id, Cosine(id))
        ELSE h[id]]

\* The neutral branch overwriting every score.
NeutralRelevance_Overwrite(score) == Some(5000)

\* The neutral branch: `if item.relevance_score is None: ... = 0.5`.
NeutralRelevance(score) == IF IsNone(score) THEN Some(5000) ELSE score

\* An except branch that rescores only the items the embedding loop had not
\* reached, leaving the embedding scores of the first n in place.
calculate_relevance_KeepEmbedded(h, list, crit, cfg, failure) ==
    IF crit.query = <<>> /\ cfg.topics_of_interest = <<>>
    THEN [id \in ItemIds |->
            IF id \in Range(list)
            THEN [h[id] EXCEPT !.relevance_score = NeutralRelevance(@)]
            ELSE h[id]]
    ELSE IF cfg.model
         THEN IF IsNone(failure)
              THEN EmbeddingScores(h, list, Len(list))
              ELSE fallback_relevance(EmbeddingScores(h, list, Val(failure)),
                                      SubSeq(list, Val(failure) + 1, Len(list)),
                                      ReferenceWords(crit, cfg))
         ELSE fallback_relevance(h, list, ReferenceWords(crit, cfg))

\* _calculate_relevance.  failure is None when every encode call succeeds,
\* and Some(n) when the embedding path raises after scoring n items.
calculate_relevance(h, list, crit, cfg, failure) ==
    IF crit.query = <<>> /\ cfg.topics_of_interest = <<>>
    THEN [id \in ItemIds |->
            IF id \in Range(list)
            THEN [h[id] EXCEPT !.relevance_score = NeutralRelevance(@)]
            ELSE h[id]]
    ELSE IF cfg.model
         THEN IF IsNone(failure)
              THEN EmbeddingScores(h, list, Len(list))
              ELSE fallback_relevance(EmbeddingScores(h, list, Val(failure)),
                                      list, ReferenceWords(crit, cfg))
         ELSE fallback_relevance(h, list, ReferenceWords(crit, cfg))

\* The additive quality heuristic of one item, capped at 1.0.
QualityOf(id) ==
    LET item == Catalog[id]
        length == IF item.content_len >= 200 /\ item.content_len <= 5000 THEN 2000
                  ELSE IF item.content_len > 5000 THEN 1000 ELSE 0
        url == IF ~IsNone(item.url) /\ item.url_http THEN 1000 ELSE 0
        author == IF item.author THEN 1000 ELSE 0
        tags == IF item.tags > 0 THEN 1000 ELSE 0
        title_case == IF item.title # <<>> /\ ~item.title_upper THEN 500 ELSE 0
        title_length == IF item.title # <<>> /\ item.title_len >= 10
                           /\ item.title_len <= 200 THEN 500 ELSE 0
        structure == IF item.content_nl THEN 1000 ELSE 0
    IN  Min(One, 5000 + length + url + author + tags + title_case
                 + title_length + structure)

\* _calculate_quality
calculate_quality(h, list) ==
    [id \in ItemIds |->
        IF id \in Range(list)
        THEN [h[id] EXCEPT !.quality_score = Some(QualityOf(id))]
        ELSE h[id]]

\* `criteria.relevance_threshold or self.config.relevance_threshold`
RelevanceThreshold(crit, cfg) ==
    OrNum(crit.relevance_threshold, cfg.relevance_threshold)

\* `criteria.quality_threshold or self.config.quality_threshold`
QualityThreshold(crit, cfg) ==
    OrNum(crit.quality_threshold, cfg.quality_threshold)

\* _filter_by_scores: the threshold gate.
filter_by_scores(h, list, crit, cfg) ==
    LET Passes(id) ==
            /\ OrNum(h[id].relevance_score, 0) >= RelevanceThreshold(crit, cfg)
            /\ OrNum(h[id].quality_score, 0) >= QualityThreshold(crit, cfg)
    IN  SelectSeq(list, Passes)

\* A sort key that adds the two scores.
CombinedScore_Sum(h, id) ==
    OrNum(h[id].relevance_score, 0) + OrNum(h[id].quality_score, 0)

\* The sort key of step 7: (relevance_score or 0) * (quality_score or 0).
CombinedScore(h, id) ==
    OrNum(h[id].relevance_score, 0) * OrNum(h[id].quality_score, 0)

\* sorted(..., reverse=True): descending and stable, for a list of distinct
\* items.  An item's place is the number of items that go before it.
sorted_by_combined_score(h, list) ==
    LET Before(j, i) ==
            \/ CombinedScore(h, list[j]) > CombinedScore(h, list[i])
            \/ CombinedScore(h, list[j]) = CombinedScore(h, list[i]) /\ j < i
        Place(i) == 1 + Cardinality({j \in 1..Len(list) : Before(j, i)})
    IN  [p \in 1..Len(list) |-> list[CHOOSE i \in 1..Len(list) : Place(i) = p]]

----------------------------------------------------------------------------
(* ContentFilter.rank_by_urgency.  Urgency scores are kept in units of     *)
(* 1/(10 * One), so that the product with 0.4 is exact.                    *)

UrgencyOne == 10 * One

urgency_keywords ==
    <<"urgent", "breaking", "alert", "critical", "important", "deadline">>

\* The recency factor: nothing for an item without published_date, else by
\* the age of the item in hours.
RecencyFactor(published, clock_now) ==
    IF IsNone(published) THEN 0
    ELSE LET age_hours == clock_now - Val(published)
         IN  IF age_hours < 1 THEN 40000
             ELSE IF age_hours < 24 THEN 30000
             ELSE IF age_hours < 168 THEN 20000
             ELSE 10000

\* (item.relevance_score or 0.5) * 0.4
RelevanceFactor(score) == OrNum(score, 5000) * 4

\* min(0.2, keyword_count * 0.05)
KeywordFactor(id) ==
    LET keyword_count ==
            Cardinality({i \in 1..Len(urgency_keywords) :
                            InText(urgency_keywords[i], TextTokens(id))})
    IN  Min(20000, keyword_count * 5000)

calculate_urgency(h, id, clock_now) ==
    RecencyFactor(Catalog[id].published, clock_now)
        + RelevanceFactor(h[id].relevance_score)
        + KeywordFactor(id)

\* getattr(x, 'urgency_score', 0)
UrgencyKey(h, id) == OrNum(h[id].urgency_score, 0)

\* A descending sort that puts the later of two equal items first.
sorted_by_urgency_TiesReversed(h, list) ==
    LET Before(j, i) ==
            \/ UrgencyKey(h, list[j]) > UrgencyKey(h, list[i])
            \/ UrgencyKey(h, list[j]) = UrgencyKey(h, list[i]) /\ j > i
        Place(i) == 1 + Cardinality({j \in 1..Len(list) : Before(j, i)})
    IN  [p \in 1..Len(list) |-> list[CHOOSE i \in 1..Len(list) : Place(i) = p]]

\* sorted(items, key=..., reverse=True): descending and stable.
sorted_by_urgency(h, list) ==
    LET Before(j, i) ==
            \/ UrgencyKey(h, list[j]) > UrgencyKey(h, list[i])
            \/ UrgencyKey(h, list[j]) = UrgencyKey(h, list[i]) /\ j < i
        Place(i) == 1 + Cardinality({j \in 1..Len(list) : Before(j, i)})
    IN  [p \in 1..Len(list) |-> list[CHOOSE i \in 1..Len(list) : Place(i) = p]]

\* `for item in items: item.urgency_score = calculate_urgency(item)`
urgency_scores(h, list, clock_now) ==
    [id \in ItemIds |->
        IF id \in Range(list)
        THEN [h[id] EXCEPT !.urgency_score =
                  Some(calculate_urgency(h, id, clock_now))]
        ELSE h[id]]

----------------------------------------------------------------------------
(* DuplicateDetector: the documents a caller can pass to                   *)
(* remove_duplicates, by what the detector reads of them: url, title, and  *)
(* the cosine of the embeddings of two documents' texts.                   *)

MaxCandidates == 7

DocIds == {"p1", "p2", "p3", "p4", "p5", "p6", "p7", "p8"}

\* p8 carries the title of p1 in another case and the url of p2; p3 has no
\* url and p4 an empty one.
Docs ==
    [ p1 |-> [url |-> Some("http://1"), title |-> <<"ai", "news">>],
      p2 |-> [url |-> Some("http://2"), title |-> <<"rain", "report">>],
      p3 |-> [url |-> None,             title |-> <<"budget">>],
      p4 |-> [url |-> Some(""),         title |-> <<"deal">>],
      p5 |-> [url |-> Some("http://5"), title |-> <<"weather">>],
      p6 |-> [url |-> Some("http://6"), title |-> <<"urgent">>],
      p7 |-> [url |-> Some("http://7"), title |-> <<"Budget", "News">>],
      p8 |-> [url |-> Some("http://2"), title |-> <<"AI", "News">>] ]

\* The cosine of two documents' embeddings.  p1 and p7 sit exactly on the
\* default threshold, p4 and p5 just below it.
Similarity(d, e) ==
    IF {d, e} = {"p1", "p7"} THEN 8500
    ELSE IF {d, e} = {"p4", "p5"} THEN 8400
    ELSE IF d = e THEN One
    ELSE 3000

\* DuplicateDetector(similarity_threshold=0.85)
SimilarityThreshold == 8500

\* existing_items[-5:]
WindowSize == 5

\* `if item.url:` -- None and "" are falsy.
Truthy(url) == ~IsNone(url) /\ Val(url) # ""

\* A title hash taken without lower().
TitleHash_CaseSensitive(d) == Docs[d].title

\* hash(item.title.lower()): equal for equal lower-cased titles; two
\* different titles are taken to hash differently.
TitleHash(d) == LowerAll(Docs[d].title)

\* seen_hashes holds url strings and integer title hashes; a string never
\* equals an integer, so the set is kept as its two kinds of members.
NoHashes == [urls |-> {}, titles |-> {}]

\* `item.url in seen_hashes`: None and "" are never members.
UrlSeen(url, seen) == ~IsNone(url) /\ Val(url) \in seen.urls

\* A detector that records the title hash of an accepted item only.
Record_TitleOnly(seen, url, title_hash) ==
    [urls |-> seen.urls, titles |-> seen.titles \cup {title_hash}]

\* `if item.url: seen_hashes.add(item.url)`, `seen_hashes.add(title_hash)`
Record(seen, url, title_hash) ==
    [urls |-> IF Truthy(url) THEN seen.urls \cup {Val(url)} ELSE seen.urls,
     titles |-> seen.titles \cup {title_hash}]

\* The whole accepted list, where the code takes its last five.
Window_All(existing_items) == existing_items

\* existing_items[-5:]
Window(existing_items) ==
    SubSeq(existing_items,
           IF Len(existing_items) > WindowSize
           THEN Len(existing_items) - WindowSize + 1 ELSE 1,
           Len(existing_items))

\* An except branch that reports a duplicate.
check_semantic_duplicate_FailClosed(d, existing_items, failure) ==
    LET window == Window(existing_items)
        similar(i) == Similarity(d, window[i]) >= SimilarityThreshold
    IN  IF IsNone(failure)
        THEN \E i \in 1..Len(window) : similar(i)
        ELSE TRUE

\* _check_semantic_duplicate.  failure is None when every encode call
\* succeeds; Some(0) when the encode of the candidate raises, Some(j) when
\* the encode of the j-th document of the window does.
check_semantic_duplicate(d, existing_items, failure) ==
    LET window == Window(existing_items)
        similar(i) == Similarity(d, window[i]) >= SimilarityThreshold
    IN  IF IsNone(failure)
        THEN \E i \in 1..Len(window) : similar(i)
        ELSE \E i \in 1..(Val(failure) - 1) : similar(i)

\* Whether the encode call `failure` names is reached: no earlier document
\* of the window made the check return True.
FailureReached(d, existing_items, failure) ==
    LET window == Window(existing_items)
    IN  /\ Val(failure) <= Len(window)
        /\ \A i \in 1..(Val(failure) - 1) :
              Similarity(d, window[i]) < SimilarityThreshold

\* One iteration of the loop of remove_duplicates over document d: the new
\* unique_items and seen_hashes, and what became of d.
loop_body(model, unique, seen, d, failure) ==
    LET url == Docs[d].url
        title_hash == TitleHash(d)
        same(kind, checked) ==
            [unique_items |-> unique, seen_hashes |-> seen,
             kind |-> kind, checked |-> checked]
    IN  IF UrlSeen(url, seen)
        THEN same("url", FALSE)
        ELSE IF title_hash \in seen.titles
        THEN same("title", FALSE)
        ELSE IF model /\ unique # <<>>
                /\ check_semantic_duplicate(d, unique, failure)
        THEN same("semantic", TRUE)
        ELSE [unique_items |-> Append(unique, d),
              seen_hashes |-> Record(seen, url, title_hash),
              kind |-> "accepted",
              checked |-> model /\ unique # <<>>]

----------------------------------------------------------------------------
(* The state machine: one ContentFilter, the items of one caller, and up   *)
(* to two filter_items calls, each run stage by stage.                     *)

VARIABLES
    config,     \* FilterConfig, topics of interest, model availability
    clock,      \* datetime.now(), in hours
    heap,       \* the annotations of the ContentItem objects
    pc,         \* the stage the running call executes next; idle; done
    items,      \* the `items` argument of the running call
    criteria,   \* filter_criteria of the running call
    filtered,   \* the working list `filtered`
    before,     \* the working list and annotations the last stage started from
    entry,      \* the annotations when the running call started
    embedding,  \* how the embedding path of the running call went
    result,     \* the FilteredResult of the last finished call
    first,      \* a record of the first call once a second one has started
    ranked,     \* the argument and the return value of rank_by_urgency
    detector,   \* DuplicateDetector: whether self.model is loaded
    candidates, \* the items of remove_duplicates' argument the loop has reached
    unique_items,   \* the local unique_items
    seen_hashes,    \* the local seen_hashes
    verdict,    \* what the last iteration did with its candidate
    returned    \* the return value of remove_duplicates

filter_vars == <<config, clock, heap, pc, items, criteria, filtered, before,
                 entry, embedding, result, first>>

dedup_vars == <<detector, candidates, unique_items, seen_hashes, verdict,
                returned>>

vars == <<filter_vars, ranked, dedup_vars>>

NoResult == [filtered_items |-> <<>>, total_processed |-> 0, total_filtered |-> 0,
             filter_criteria |-> None]

\* rank_by_urgency not called yet.
NoRanking == [items |-> <<>>, out |-> None]

NoVerdict == [doc |-> "", kind |-> "none", checked |-> FALSE, failed |-> FALSE]

\* remove_duplicates not called.
DetectorIdle ==
    /\ candidates = <<>>
    /\ unique_items = <<>>
    /\ seen_hashes = NoHashes
    /\ verdict = NoVerdict
    /\ returned = None

Init ==
    /\ config \in Configs
    /\ clock = Clock0
    /\ heap = FreshHeap
    /\ pc = "idle"
    /\ items = <<>>
    /\ criteria = default_criteria(config)
    /\ filtered = <<>>
    /\ before = [items |-> <<>>, heap |-> FreshHeap]
    /\ entry = FreshHeap
    /\ embedding = "unused"
    /\ result = NoResult
    /\ first = None
    /\ ranked = NoRanking
    /\ detector = [model |-> FALSE]
    /\ DetectorIdle

\* filter_items up to the first stage: the empty-input return, the choice of
\* the criteria, the copy of the list.
Enter(list, crit, h) ==
    /\ items' = list
    /\ criteria' = crit
    /\ heap' = h
    /\ entry' = h
    /\ filtered' = list
    /\ before' = [items |-> list, heap |-> h]
    /\ embedding' = "unused"
    /\ IF list = <<>>
       THEN /\ pc' = "done"
            /\ result' = [filtered_items |-> <<>>, total_processed |-> 0,
                          total_filtered |-> 0, filter_criteria |-> Some(crit)]
       ELSE /\ pc' = "age"
            /\ result' = NoResult
    /\ UNCHANGED <<config, clock, ranked, dedup_vars>>

\* The first call: any list of items, with criteria or with none.
FilterItems ==
    /\ pc = "idle"
    /\ \E list \in InputLists, crit \in CriteriaSet \cup {default_criteria(config)} :
          Enter(list, crit, heap)
    /\ UNCHANGED first

Stage(next, list, h) ==
    /\ before' = [items |-> filtered, heap |-> heap]
    /\ filtered' = list
    /\ heap' = h
    /\ pc' = next
    /\ UNCHANGED <<config, clock, items, criteria, entry, result, first>>
    /\ UNCHANGED <<ranked, dedup_vars>>

\* Step 1
FilterByAge ==
    /\ pc = "age"
    /\ Stage("source", filter_by_age(filtered, criteria, config, clock), heap)
    /\ UNCHANGED embedding

\* Step 2
FilterBySource ==
    /\ pc = "source"
    /\ LET out == filter_by_source(heap, filtered, criteria, config)
       IN  Stage("keywords", out.items, out.heap)
    /\ UNCHANGED embedding

\* Step 3 handed the list the caller passed, not the output of step 2.
FilterByKeywords_OnArgument ==
    /\ pc = "keywords"
    /\ LET out == filter_by_keywords(heap, items, criteria, config)
       IN  Stage("relevance", out.items, out.heap)
    /\ UNCHANGED embedding

\* Step 3
FilterByKeywords ==
    /\ pc = "keywords"
    /\ LET out == filter_by_keywords(heap, filtered, criteria, config)
       IN  Stage("relevance", out.items, out.heap)
    /\ UNCHANGED embedding

\* Whether step 4 takes the embedding path.
UsesEmbedding ==
    /\ ~(criteria.query = <<>> /\ config.topics_of_interest = <<>>)
    /\ config.model

\* Step 4, every encode call succeeding (or none being made).
CalculateRelevance ==
    /\ pc = "relevance"
    /\ Stage("quality", filtered,
             calculate_relevance(heap, filtered, criteria, config, None))
    /\ embedding' = IF UsesEmbedding THEN "ok" ELSE "unused"

\* Step 4, the embedding path raising after it scored n items.
CalculateRelevanceFailing ==
    /\ pc = "relevance"
    /\ UsesEmbedding
    /\ \E n \in 0..Len(filtered) :
          /\ n < Len(filtered) \/ n = 0
          /\ Stage("quality", filtered,
                   calculate_relevance(heap, filtered, criteria, config, Some(n)))
    /\ embedding' = "failed"

\* Step 5
CalculateQuality ==
    /\ pc = "quality"
    /\ Stage("scores", filtered, calculate_quality(heap, filtered))
    /\ UNCHANGED embedding

\* Step 6
FilterByScores ==
    /\ pc = "scores"
    /\ Stage("sort", filter_by_scores(heap, filtered, criteria, config), heap)
    /\ UNCHANGED embedding

\* A return that counts the retained items as the processed ones.
SortAndReturn_CountsRetained ==
    /\ pc = "sort"
    /\ LET out == sorted_by_combined_score(heap, filtered)
       IN  /\ before' = [items |-> filtered, heap |-> heap]
           /\ filtered' = out
           /\ result' = [filtered_items |-> out, total_processed |-> Len(out),
                         total_filtered |-> Len(out),
                         filter_criteria |-> Some(criteria)]
    /\ pc' = "done"
    /\ UNCHANGED <<config, clock, heap, items, criteria, entry, embedding, first>>
    /\ UNCHANGED <<ranked, dedup_vars>>

\* Step 7 and the return of the FilteredResult.
SortAndReturn ==
    /\ pc = "sort"
    /\ LET out == sorted_by_combined_score(heap, filtered)
       IN  /\ before' = [items |-> filtered, heap |-> heap]
           /\ filtered' = out
           /\ result' = [filtered_items |-> out, total_processed |-> Len(items),
                         total_filtered |-> Len(out),
                         filter_criteria |-> Some(criteria)]
    /\ pc' = "done"
    /\ UNCHANGED <<config, clock, heap, items, criteria, entry, embedding, first>>
    /\ UNCHANGED <<ranked, dedup_vars>>

\* What a second call is compared with.
FirstCall(how) ==
    [how |-> how, items |-> items, criteria |-> criteria, entry |-> entry,
     filtered_items |-> result.filtered_items, embedding |-> embedding]

\* A second call with the same list of the same objects and the same criteria.
FilterAgain ==
    /\ pc = "done"
    /\ first = None
    /\ first' = Some(FirstCall("again"))
    /\ Enter(items, criteria, heap)

\* A second call on the items the first one returned, with the same criteria.
FilterOutput ==
    /\ pc = "done"
    /\ first = None
    /\ first' = Some(FirstCall("output"))
    /\ Enter(result.filtered_items, criteria, heap)

\* A second call as filter_content makes it: the items built anew from the
\* same dictionaries, the criteria with one threshold they set raised.
FilterRebuilt ==
    /\ pc = "done"
    /\ first = None
    /\ first' = Some(FirstCall("rebuilt"))
    /\ \E rt \in Thresholds, qt \in QualityThresholds :
          /\ \/ /\ ~IsNone(criteria.relevance_threshold) /\ ~IsNone(rt)
                /\ Val(rt) > Val(criteria.relevance_threshold)
                /\ qt = criteria.quality_threshold
             \/ /\ ~IsNone(criteria.quality_threshold) /\ ~IsNone(qt)
                /\ Val(qt) > Val(criteria.quality_threshold)
                /\ rt = criteria.relevance_threshold
          /\ Enter(items,
                   [criteria EXCEPT !.relevance_threshold = rt,
                                    !.quality_threshold = qt],
                   entry)

\* rank_by_urgency over `list`, from call to return: every item of the list
\* gets its urgency_score, then the list is sorted on the scores written.
Rank(list) ==
    /\ heap' = urgency_scores(heap, list, clock)
    /\ ranked' = [items |-> list, out |-> Some(sorted_by_urgency(heap', list))]
    /\ pc' = "ranked"
    /\ UNCHANGED <<config, clock, items, criteria, filtered, before, entry,
                   embedding, result, first, dedup_vars>>

\* rank_by_urgency on items no filter call has touched.
RankFresh ==
    /\ pc = "idle"
    /\ \E list \in InputLists : Rank(list)

\* rank_by_urgency after a filter call, on the list the caller passed to it
\* or on the items it returned.
RankAfterFilter ==
    /\ pc = "done"
    /\ first = None
    /\ \E list \in {items, result.filtered_items} : Rank(list)


Next ==
    \/ FilterItems
    \/ FilterByAge
    \/ FilterBySource
    \/ FilterByKeywords
    \/ CalculateRelevance
    \/ CalculateRelevanceFailing
    \/ CalculateQuality
    \/ FilterByScores
    \/ SortAndReturn
    \/ FilterAgain
    \/ FilterOutput
    \/ FilterRebuilt
    \/ RankFresh
    \/ RankAfterFilter

Spec == Init /\ [][Next]_vars

----------------------------------------------------------------------------
(* DuplicateDetector.remove_duplicates, one loop iteration at a step.  The *)
(* loop reads its argument one item at a time and never looks ahead, so    *)
(* the argument is given by the candidates the loop has reached; the early *)
(* return of a list of at most one item hands back the argument itself.    *)

DetectorInit ==
    /\ config = DefaultConfig(FALSE)
    /\ clock = Clock0
    /\ heap = FreshHeap
    /\ pc = "idle"
    /\ items = <<>>
    /\ criteria = default_criteria(config)
    /\ filtered = <<>>
    /\ before = [items |-> <<>>, heap |-> FreshHeap]
    /\ entry = FreshHeap
    /\ embedding = "unused"
    /\ result = NoResult
    /\ first = None
    /\ ranked = NoRanking
    /\ detector \in [model : BOOLEAN]
    /\ DetectorIdle

\* The loop variables after an iteration that ended as `out` says.
Iterated(d, out, failed) ==
    /\ candidates' = Append(candidates, d)
    /\ unique_items' = out.unique_items
    /\ seen_hashes' = out.seen_hashes
    /\ verdict' = [doc |-> d, kind |-> out.kind, checked |-> out.checked,
                   failed |-> failed]
    /\ UNCHANGED <<filter_vars, ranked, detector, returned>>

\* One iteration, every encode call of its similarity check succeeding (or
\* no check being made).
Iterate ==
    /\ returned = None
    /\ Len(candidates) < MaxCandidates
    /\ \E d \in DocIds \ Range(candidates) :
          Iterated(d, loop_body(detector.model, unique_items, seen_hashes,
                                d, None), FALSE)

\* One iteration whose similarity check raises at one of its encode calls.
IterateCheckFailing ==
    /\ returned = None
    /\ Len(candidates) < MaxCandidates
    /\ detector.model
    /\ unique_items # <<>>
    /\ \E d \in DocIds \ Range(candidates), point \in 0..WindowSize :
          /\ ~UrlSeen(Docs[d].url, seen_hashes)
          /\ TitleHash(d) \notin seen_hashes.titles
          /\ FailureReached(d, unique_items, Some(point))
          /\ Iterated(d, loop_body(detector.model, unique_items, seen_hashes,
                                   d, Some(point)), TRUE)

\* The end of the argument: `return unique_items`, or the early `return
\* items` for at most one item.
ReturnUnique ==
    /\ returned = None
    /\ returned' = Some(IF Len(candidates) <= 1 THEN candidates
                        ELSE unique_items)
    /\ UNCHANGED <<filter_vars, ranked, detector, candidates, unique_items,
                   seen_hashes, verdict>>

DetectorNext ==
    \/ Iterate
    \/ IterateCheckFailing
    \/ ReturnUnique

DetectorSpec == DetectorInit /\ [][DetectorNext]_vars


----------------------------------------------------------------------------
(* Properties *)

InUnitRange(score) == IsNone(score) \/ (Val(score) >= 0 /\ Val(score) <= One)

\* A threshold or age limit as the specification resolves it: the value the
\* criteria set, the configured one only when the criteria leave it unset.
Resolved(value, configured) == IF IsNone(value) THEN configured ELSE Val(value)

\* Whether a second call has finished that started as `how` and took the
\* same embedding path as the first.
SecondDone(how) ==
    /\ pc = "done"
    /\ first # None
    /\ Val(first).how = how
    /\ Val(first).embedding = embedding

\* C1: while filter runs and after it, every item's relevance_score and
\* quality_score is unset or lies in [0,1].
C1_ScoresInUnitRange ==
    \A id \in ItemIds :
        /\ InUnitRange(heap[id].relevance_score)
        /\ InUnitRange(heap[id].quality_score)

\* C2: the threshold gate retains exactly the items whose relevance_score
\* and quality_score reach the thresholds, each threshold being the one the
\* criteria set (0.0 included) and the configured one only when unset.
C2_GateUsesCriteriaThresholds ==
    pc = "sort" =>
        \A id \in Range(before.items) :
            id \in Range(filtered) <=>
                /\ ~IsNone(heap[id].relevance_score)
                /\ Val(heap[id].relevance_score)
                      >= Resolved(criteria.relevance_threshold,
                                  config.relevance_threshold)
                /\ ~IsNone(heap[id].quality_score)
                /\ Val(heap[id].quality_score)
                      >= Resolved(criteria.quality_threshold,
                                  config.quality_threshold)

\* C3: for the same items, configuration and other criteria, a call with a
\* raised relevance or quality threshold retains no more items.
C3_ThresholdMonotone ==
    SecondDone("rebuilt") =>
        Len(result.filtered_items) <= Len(Val(first).filtered_items)

\* C4: filter run on its own output with the same criteria returns every
\* item of that output and nothing else.
C4_IdempotentOnOutput ==
    SecondDone("output") =>
        Range(result.filtered_items) = Range(Val(first).filtered_items)

\* C5: two successive calls with the same items and criteria return the
\* same items in the same order.
C5_NoStateAcrossCalls ==
    SecondDone("again") =>
        result.filtered_items = Val(first).filtered_items

\* The keywords the keyword stage works with, lower-cased.
EffectiveKeywords == LowerAll(OrList(criteria.keywords, config.keywords))

KeywordHits(id) ==
    Cardinality({k \in 1..Len(EffectiveKeywords) :
                    \E i \in 1..Len(TextTokens(id)) :
                        SubstringOf(EffectiveKeywords[k], TextTokens(id)[i])})

NoKeywordMatch == \A id \in Range(before.items) : KeywordHits(id) = 0

\* C6: when keywords are configured and no input item matches one, the
\* keyword stage returns its input unchanged with no relevance score
\* modified; it never returns an empty list for a non-empty input.
C6_KeywordFallback ==
    pc = "relevance" =>
        /\ (EffectiveKeywords # <<>> /\ NoKeywordMatch) =>
              /\ filtered = before.items
              /\ \A id \in ItemIds :
                    heap[id].relevance_score = before.heap[id].relevance_score
        /\ before.items # <<>> => filtered # <<>>

C6_Witness ==
    /\ pc = "relevance"
    /\ EffectiveKeywords # <<>>
    /\ Len(before.items) > 1
    /\ NoKeywordMatch
    /\ filtered = before.items

\* The relevance score the specification starts a multiplication from: the
\* score when it is set, 0.5 only when it is unset.
WorkingScore(score) == Resolved(score, 5000)

IsSubsequenceOf(sub, list) ==
    \A i, j \in 1..Len(sub) :
        i < j => \E m, n \in 1..Len(list) :
                    m < n /\ list[m] = sub[i] /\ list[n] = sub[j]

\* C7: without keywords the keyword stage passes every item through with
\* scores untouched; with keywords and at least one match exactly the
\* matching items survive, in input order, each with its relevance score
\* (0.5 if unset) multiplied by 1.0 + 0.1 x the number of keywords matched.
C7_KeywordFilter ==
    pc = "relevance" =>
        /\ EffectiveKeywords = <<>> =>
              /\ filtered = before.items
              /\ heap = before.heap
        /\ (EffectiveKeywords # <<>> /\ ~NoKeywordMatch) =>
              /\ Range(filtered) = {id \in Range(before.items) : KeywordHits(id) > 0}
              /\ IsSubsequenceOf(filtered, before.items)
              /\ \A id \in Range(filtered) :
                    heap[id].relevance_score =
                      Some((WorkingScore(before.heap[id].relevance_score)
                              * (10 + KeywordHits(id))) \div 10)

EffectiveBlocked ==
    Range(OrList(criteria.blocked_sources, config.blocked_sources))

EffectivePreferred ==
    Range(OrList(criteria.preferred_sources, config.preferred_sources))

HasSourceIn(id, sources) ==
    \E src \in Catalog[id].source : src \in sources

\* C8: the source stage drops exactly the items with a blocked source; with
\* a non-empty preferred set a retained item of another source has its
\* relevance score (0.5 if unset) multiplied by 0.7, and every other
\* retained item keeps its score.
C8_SourceFilter ==
    pc = "keywords" =>
        /\ Range(filtered) =
              {id \in Range(before.items) : ~HasSourceIn(id, EffectiveBlocked)}
        /\ \A id \in Range(filtered) :
              IF EffectivePreferred # {} /\ ~HasSourceIn(id, EffectivePreferred)
              THEN heap[id].relevance_score =
                     Some((WorkingScore(before.heap[id].relevance_score) * 7) \div 10)
              ELSE heap[id].relevance_score = before.heap[id].relevance_score

\* The age limit in hours, from the criteria, else from the configuration.
AgeLimitHours == 24 * Resolved(criteria.max_age_days, config.max_age_days)

\* C9: the age stage retains an item with a published_date iff that date is
\* not before now - max_age_days, and retains every item without one.
C9_AgeFilter ==
    pc = "source" =>
        /\ IsSubsequenceOf(filtered, before.items)
        /\ \A id \in Range(before.items) :
              id \in Range(filtered) <=>
                  \A published \in Catalog[id].published :
                      published >= clock - AgeLimitHours

\* An item dated exactly max_age_days ago is kept and one dated a day more
\* is dropped, in one call.
C9_Witness ==
    /\ pc = "source"
    /\ \E kept \in Range(filtered), dropped \in Range(before.items) :
          /\ Catalog[kept].published = Some(clock - AgeLimitHours)
          /\ Catalog[dropped].published = Some(clock - AgeLimitHours - 24)
          /\ dropped \notin Range(filtered)

NoReference == criteria.query = <<>> /\ config.topics_of_interest = <<>>

\* C10 as stated: with no query and no interest topics every item leaves
\* relevance scoring with relevance_score exactly 0.5.
C10_AlwaysNeutral ==
    (pc = "quality" /\ NoReference) =>
        \A id \in Range(filtered) : heap[id].relevance_score = Some(5000)

\* C10 as amended: with no query and no interest topics an item whose score
\* is unset on entering relevance scoring leaves with exactly 0.5, and an
\* item whose score is already set keeps that score.
C10_NeutralWhenUnset ==
    (pc = "quality" /\ NoReference) =>
        \A id \in Range(filtered) :
            IF IsNone(before.heap[id].relevance_score)
            THEN heap[id].relevance_score = Some(5000)
            ELSE heap[id].relevance_score = before.heap[id].relevance_score

\* One item got the neutral score while another kept its dampened one.
C10_Witness ==
    /\ pc = "quality"
    /\ NoReference
    /\ \E fresh, kept \in Range(filtered) :
          /\ IsNone(before.heap[fresh].relevance_score)
          /\ heap[fresh].relevance_score = Some(5000)
          /\ before.heap[kept].relevance_score = Some(3500)
          /\ heap[kept].relevance_score = Some(3500)

\* The word-overlap score of an item against the call's reference text.
LexicalScore(id) ==
    LET reference == { Lower(w) : w \in Range(criteria.query)
                                        \cup Range(config.topics_of_interest) }
        words == Range(TextTokens(id))
        both == reference \cap words
        either == reference \cup words
    IN  IF either = {} THEN 0 ELSE (Cardinality(both) * One) \div Cardinality(either)

\* C11: when an encode call fails anywhere in relevance scoring, the call
\* goes on to return a result, and every item of the working set, those the
\* embedding loop had already scored included, leaves relevance scoring with
\* its word-overlap score.
C11_EmbeddingFailureFallsBack ==
    (embedding = "failed") =>
        /\ pc \in {"quality", "scores", "sort", "done", "ranked"}
        /\ pc = "quality" =>
              /\ filtered = before.items
              /\ \A id \in Range(filtered) :
                    heap[id].relevance_score = Some(LexicalScore(id))
        /\ pc \in {"done", "ranked"} => result # NoResult

\* The embedding path failed over two items whose cosines differ from their
\* word-overlap scores, and both left with the word-overlap score.
C11_Witness ==
    /\ pc = "quality"
    /\ embedding = "failed"
    /\ Len(filtered) = 2
    /\ \A id \in Range(filtered) :
          /\ Cosine(id) # LexicalScore(id)
          /\ heap[id].relevance_score = Some(LexicalScore(id))

\* The value remove_duplicates returned, as a set of documents.
Output == Range(Val(returned))

\* Two positions of the argument holding the same non-empty url.
SameUrl(i, j) ==
    /\ i < j
    /\ Truthy(Docs[candidates[i]].url)
    /\ Docs[candidates[i]].url = Docs[candidates[j]].url

\* C12 as stated: of two items of the argument with the same non-empty url
\* the later one is never in the output, whatever became of the earlier.
C12_LaterSameUrlNeverReturned ==
    returned # None =>
        \A i, j \in 1..Len(candidates) :
            SameUrl(i, j) => candidates[j] \notin Output

\* C12 as amended: of two items of the argument with the same non-empty url
\* the later one is never in the output when the earlier one was accepted,
\* with or without an embedding model; so no two returned items share a
\* non-empty url.
C12_LaterSameUrlAsAcceptedNeverReturned ==
    LET accepted == Range(unique_items)
        output == IF returned = None THEN {} ELSE Output
    IN  \A j \in 2..Len(candidates) :
            \A i \in 1..(j - 1) :
                SameUrl(i, j) =>
                    /\ candidates[i] \in accepted
                          => candidates[j] \notin accepted
                    /\ (returned # None /\ candidates[i] \in output)
                          => candidates[j] \notin output

\* With an embedding model loaded, the second of two same-url items was
\* turned away at the url test, after an item in between had been accepted.
C12_Witness ==
    /\ returned # None
    /\ detector.model
    /\ verdict.kind = "url"
    /\ \E i, j \in 1..Len(candidates) :
          /\ SameUrl(i, j)
          /\ j = Len(candidates)
          /\ j > i + 1
          /\ candidates[i] \in Output
          /\ candidates[i + 1] \in Output
          /\ candidates[j] \notin Output

\* The accepted items the last iteration started from.
Accepted ==
    IF verdict.kind = "accepted"
    THEN SubSeq(unique_items, 1, Len(unique_items) - 1)
    ELSE unique_items

\* The last candidate is at least threshold-similar to the accepted item at
\* position i.
SimilarTo(i) == Similarity(verdict.doc, Accepted[i]) >= SimilarityThreshold

\* Position i is among the five most recently accepted.
Recent(i) == i \in 1..Len(Accepted) /\ i > Len(Accepted) - 5

\* C13: the similarity check runs only with an embedding model and at least
\* one accepted item, and compares the candidate with the five most
\* recently accepted items only: a candidate similar to one of them is
\* rejected, a candidate similar only to the sixth most recent or an older
\* one is accepted.
C13_WindowOfFive ==
    /\ verdict.checked => (detector.model /\ Accepted # <<>>)
    /\ verdict.kind = "semantic" => verdict.checked
    /\ (verdict.checked /\ ~verdict.failed) =>
          (verdict.kind = "semantic" <=> \E i \in 1..Len(Accepted) :
                                             Recent(i) /\ SimilarTo(i))
    /\ (verdict.kind = "accepted" /\ ~verdict.checked) =>
          (~detector.model \/ Accepted = <<>>)

\* A candidate similar to the sixth most recently accepted item, and to none
\* of the five after it, was accepted by a check that ran to its end.
C13_Witness ==
    /\ verdict.kind = "accepted"
    /\ verdict.checked
    /\ ~verdict.failed
    /\ Len(Accepted) = 6
    /\ SimilarTo(1)
    /\ \A i \in 2..6 : ~SimilarTo(i)

\* C14: a similarity check that fails does not end remove_duplicates: the
\* candidate counts as no duplicate and is accepted, its url and title are
\* recorded like any accepted item's, and the candidates after it meet the
\* same exact-match tests against everything accepted so far.
C14_FailOpen ==
    /\ verdict.kind # "none" =>
          LET doc == verdict.doc
              url == Docs[doc].url
              title == LowerAll(Docs[doc].title)
              url_seen == Truthy(url) /\ Val(url) \in seen_hashes.urls
              title_seen == title \in seen_hashes.titles
          IN  /\ verdict.failed => verdict.kind = "accepted"
              /\ verdict.kind = "url" => url_seen
              /\ verdict.kind = "title" => (~url_seen /\ title_seen)
              /\ verdict.kind = "semantic" => (~url_seen /\ ~title_seen)
              /\ verdict.kind = "accepted" =>
                    /\ unique_items[Len(unique_items)] = doc
                    /\ title_seen
                    /\ Truthy(url) => url_seen
                    /\ \A i \in 1..(Len(unique_items) - 1) :
                          /\ LowerAll(Docs[unique_items[i]].title) # title
                          /\ Truthy(url) => Docs[unique_items[i]].url # url
    /\ (returned # None /\ Len(candidates) > 1) => Val(returned) = unique_items

\* An item was accepted next to one it is similar to, which only a failed
\* check allows, and a later candidate with that item's title was then
\* rejected at the title test.
C14_Witness ==
    /\ detector.model
    /\ ~verdict.failed
    /\ verdict.kind = "title"
    /\ \E i, j \in 1..Len(unique_items) :
          /\ i < j
          /\ j - i <= 5
          /\ Similarity(unique_items[i], unique_items[j]) >= SimilarityThreshold
          /\ LowerAll(Docs[unique_items[j]].title) = LowerAll(Docs[verdict.doc].title)

\* C15: after rank_by_urgency, on items fresh from the caller or carrying
\* the scores of a preceding filter call, every urgency_score it wrote lies
\* in [0,1].
C15_UrgencyInUnitRange ==
    pc = "ranked" =>
        \A id \in Range(ranked.items) :
            /\ ~IsNone(heap[id].urgency_score)
            /\ Val(heap[id].urgency_score) >= 0
            /\ Val(heap[id].urgency_score) <= UrgencyOne

\* The recency component as the specification gives it: 0.1 for an item
\* with no published_date as for an old one.
StatedRecency(id) ==
    LET published == Catalog[id].published
    IN  IF IsNone(published) THEN 10000
        ELSE IF clock - Val(published) < 1 THEN 40000
        ELSE IF clock - Val(published) < 24 THEN 30000
        ELSE IF clock - Val(published) < 168 THEN 20000
        ELSE 10000

\* The relevance the item had when rank_by_urgency read it.
RankedRelevance(id) == heap[id].relevance_score

\* C16: the recency component of the urgency score is 0.4 under one hour of
\* age, 0.3 under 24 hours, 0.2 under 168 hours, and 0.1 both for an older
\* item and for one with no published_date.
C16_RecencyComponent ==
    pc = "ranked" =>
        \A id \in Range(ranked.items) :
            heap[id].urgency_score =
                Some(StatedRecency(id) + RelevanceFactor(RankedRelevance(id))
                       + KeywordFactor(id))

\* The relevance component as the specification gives it: the score times
\* 0.4 whenever the score is set, 0.5 times 0.4 only when it is unset.
StatedRelevance(score) == IF IsNone(score) THEN 5000 * 4 ELSE Val(score) * 4

\* C17: for an item whose relevance_score is set to a value of [0,1], 0.0
\* included, the relevance component of the urgency score is the score
\* times 0.4; the default 0.5 times 0.4 is used only for an unset score.
C17_RelevanceComponent ==
    pc = "ranked" =>
        \A id \in Range(ranked.items) :
            InUnitRange(RankedRelevance(id)) =>
                heap[id].urgency_score =
                    Some(RecencyFactor(Catalog[id].published, clock)
                           + StatedRelevance(RankedRelevance(id))
                           + KeywordFactor(id))

\* The urgency_score rank_by_urgency wrote on the item at position i of its
\* return value.
ReturnedUrgency(i) == Val(heap[Val(ranked.out)[i]].urgency_score)

\* The position of an item in the argument of rank_by_urgency.
InputPosition(id) == CHOOSE i \in 1..Len(ranked.items) : ranked.items[i] = id

\* C18: rank_by_urgency returns a permutation of its argument in
\* non-increasing order of urgency_score, and two items with equal
\* urgency_score keep the relative order they had in the argument.
C18_StableDescending ==
    pc = "ranked" =>
        LET out == Val(ranked.out)
        IN  /\ Len(out) = Len(ranked.items)
            /\ Range(out) = Range(ranked.items)
            /\ \A i, j \in 1..Len(out) :
                  i < j =>
                      /\ ReturnedUrgency(i) >= ReturnedUrgency(j)
                      /\ ReturnedUrgency(i) = ReturnedUrgency(j) =>
                            InputPosition(out[i]) < InputPosition(out[j])

\* Two items that came out of a filter call with the same relevance, of the
\* same age bracket and keyword count, were ranked: equal in urgency, they
\* were returned in the order of the argument.
C18_Witness ==
    /\ pc = "ranked"
    /\ result # NoResult
    /\ Len(ranked.items) = 2
    /\ ReturnedUrgency(1) = ReturnedUrgency(2)
    /\ Val(ranked.out) = ranked.items
    /\ LET x == ranked.items[1]
           y == ranked.items[2]
       IN  /\ heap[x].relevance_score = heap[y].relevance_score
           /\ RecencyFactor(Catalog[x].published, clock)
                = RecencyFactor(Catalog[y].published, clock)
           /\ KeywordFactor(x) = KeywordFactor(y)

\* The scores of the item at position i of the sequence filter returned.
ReturnedRelevance(i) == Val(heap[result.filtered_items[i]].relevance_score)

ReturnedQuality(i) == Val(heap[result.filtered_items[i]].quality_score)

\* C19: in the sequence filter returns, the product of relevance_score and
\* quality_score never increases from an item to the next, and the sequence
\* holds exactly the items that came out of the threshold gate.
C19_SortedByProduct ==
    (pc = "done" /\ items # <<>>) =>
        LET out == result.filtered_items
        IN  /\ \A i \in 1..(Len(out) - 1) :
                  ReturnedRelevance(i) * ReturnedQuality(i)
                      >= ReturnedRelevance(i + 1) * ReturnedQuality(i + 1)
            /\ Len(out) = Len(before.items)
            /\ Range(out) = Range(before.items)
            /\ Len(out) = Cardinality(Range(out))

\* Two items came out of the gate; the one with the larger product was put
\* first although it came second and has the smaller sum.
C19_Witness ==
    /\ pc = "done"
    /\ Len(result.filtered_items) = 2
    /\ result.filtered_items = <<before.items[2], before.items[1]>>
    /\ ReturnedRelevance(1) * ReturnedQuality(1)
          > ReturnedRelevance(2) * ReturnedQuality(2)
    /\ ReturnedRelevance(1) + ReturnedQuality(1)
          < ReturnedRelevance(2) + ReturnedQuality(2)

\* The stage that follows each stage of a filter call.
StageAfter ==
    [age |-> "source", source |-> "keywords", keywords |-> "relevance",
     relevance |-> "quality", quality |-> "scores", scores |-> "sort",
     sort |-> "done"]

\* What a step taken while a filter call is under way does.
InOrder ==
    pc \in DOMAIN StageAfter =>
        /\ pc' = StageAfter[pc]
        /\ before' = [items |-> filtered, heap |-> heap]
        /\ Range(filtered') \subseteq Range(filtered)
        /\ IsSubsequenceOf(filtered', filtered) \/ pc = "sort"
        /\ pc \in {"relevance", "quality"} => filtered' = filtered
        /\ pc = "sort" => Len(filtered') = Len(filtered)
        /\ \A id \in ItemIds : heap'[id].urgency_score = heap[id].urgency_score
        /\ ranked' = ranked
        /\ UNCHANGED dedup_vars

\* C20: within a filter call the stages run in the order age, source,
\* keywords, relevance, quality, threshold gate, sort, one whole stage at a
\* step; each works on the list and the scores the stage before it left (a
\* filtering stage can only narrow that list, a scoring stage keeps it, the
\* sort permutes it), and no step of the call ranks by urgency or removes
\* duplicates.
C20_StageOrder == [][InOrder]_vars

\* A call ran all its stages over two items with the same url and returned
\* both, neither with an urgency_score.
C20_Witness ==
    /\ pc = "done"
    /\ ranked = NoRanking
    /\ Len(items) = 2
    /\ Len(result.filtered_items) = 2
    /\ \E x, y \in Range(result.filtered_items) :
          /\ x # y
          /\ Catalog[x].url = Catalog[y].url
          /\ ~IsNone(Catalog[x].url)
          /\ IsNone(heap[x].urgency_score)
          /\ IsNone(heap[y].urgency_score)

\* How often an item occurs in a list.
Occurrences(id, list) == Cardinality({i \in 1..Len(list) : list[i] = id})

\* C21: the result of every filter call has total_processed equal to the
\* number of items passed in and total_filtered equal to the number of items
\* returned, which is at most total_processed; every returned item is one of
\* the items passed in and is returned once; a call with no items returns no
\* items and both counts zero.
C21_EnvelopeCounts ==
    pc = "done" =>
        /\ result # NoResult
        /\ result.total_processed = Len(items)
        /\ result.total_filtered = Len(result.filtered_items)
        /\ result.total_filtered <= result.total_processed
        /\ \A id \in Range(result.filtered_items) :
              /\ id \in Range(items)
              /\ Occurrences(id, result.filtered_items) = 1
        /\ items = <<>> =>
              /\ result.filtered_items = <<>>
              /\ result.total_processed = 0
              /\ result.total_filtered = 0

\* A call over two items returned one of them.
C21_Witness ==
    /\ pc = "done"
    /\ Len(items) = 2
    /\ result.total_processed = 2
    /\ result.total_filtered = 1
    /\ Len(result.filtered_items) = 1
    /\ result.filtered_items[1] \in Range(items)

\* The criteria recorded in the FilteredResult; filter_content echoes the
\* same three fields of the same object in its filter_summary.
Recorded == Val(result.filter_criteria)

\* C22: the criteria recorded in the result of a call carry the relevance
\* threshold, the quality threshold and the age limit its stages applied,
\* also when the caller left a field unset and the configured value was
\* applied.
C22_EffectiveCriteriaRecorded ==
    (pc = "done" /\ items # <<>>) =>
        /\ Recorded.relevance_threshold
              = Some(RelevanceThreshold(criteria, config))
        /\ Recorded.quality_threshold
              = Some(QualityThreshold(criteria, config))
        /\ Recorded.max_age_days
              = Some(OrNum(criteria.max_age_days, config.max_age_days))

\* What relevance scoring writes on an item when a query or interest topics
\* are present: the cosine where the embedding path ran to its end, the
\* word-overlap score otherwise.  It depends on the item and the reference
\* text only.
StageValue(id) == IF embedding = "ok" THEN Cosine(id) ELSE LexicalScore(id)

\* The gate's test on an item, with the relevance score given.
GateLetsThrough(id, relevance) ==
    /\ relevance >= RelevanceThreshold(criteria, config)
    /\ Val(heap[id].quality_score) >= QualityThreshold(criteria, config)

\* C23: with a query or interest topics present, relevance scoring
\* overwrites whatever the source and keyword stages left, and that value is
\* what the gate compares and the sort orders by, so dampening and boost
\* change neither the items retained nor their order; with neither present
\* the score the earlier stages left (0.5 for an unset one) reaches the gate.
C23_RelevanceOverwritten ==
    /\ pc = "quality" =>
          \A id \in Range(filtered) :
              heap[id].relevance_score =
                  IF ~NoReference THEN Some(StageValue(id))
                  ELSE IF IsNone(before.heap[id].relevance_score) THEN Some(5000)
                  ELSE before.heap[id].relevance_score
    /\ pc \in {"scores", "sort"} =>
          \A id \in ItemIds :
              heap[id].relevance_score = before.heap[id].relevance_score
    /\ (pc = "sort" /\ ~NoReference) =>
          /\ IsSubsequenceOf(filtered, before.items)
          /\ \A id \in Range(before.items) :
                id \in Range(filtered) <=> GateLetsThrough(id, StageValue(id))
    /\ (pc = "done" /\ ~NoReference /\ items # <<>>) =>
          \A i \in 1..(Len(filtered) - 1) :
              StageValue(filtered[i]) * Val(heap[filtered[i]].quality_score)
                >= StageValue(filtered[i + 1])
                     * Val(heap[filtered[i + 1]].quality_score)

\* With a query present the gate retained an item of a source outside the
\* preferred ones on the score relevance scoring wrote, where the dampened
\* score would not have passed.
C23_Witness ==
    /\ pc = "sort"
    /\ ~NoReference
    /\ EffectivePreferred # {}
    /\ \E id \in Range(filtered) :
          /\ ~HasSourceIn(id, EffectivePreferred)
          /\ heap[id].relevance_score = Some(StageValue(id))
          /\ GateLetsThrough(id, StageValue(id))
          /\ ~GateLetsThrough(id, Dampen(WorkingRelevance(entry[id].relevance_score)))

\* C24: at every step of remove_duplicates the accepted list holds accepted
\* candidates in the order they were processed, the first candidate among
\* them; no two accepted items have the same non-empty url or the same
\* title up to case; and the lookup set holds the non-empty urls and the
\* title keys of the accepted items and nothing else.
C24_AcceptedListInvariant ==
    LET accepted == Range(unique_items)
        with_url == { d \in accepted : Truthy(Docs[d].url) }
        urls == { Val(Docs[d].url) : d \in with_url }
        titles == { LowerAll(Docs[d].title) : d \in accepted }
    IN  /\ accepted \subseteq Range(candidates)
        /\ Cardinality(accepted) = Len(unique_items)
        /\ \A i \in 1..(Len(unique_items) - 1) :
              \E n \in 2..Len(candidates) :
                  /\ candidates[n] = unique_items[i + 1]
                  /\ \E m \in 1..(n - 1) : candidates[m] = unique_items[i]
        /\ candidates # <<>> =>
              (unique_items # <<>> /\ unique_items[1] = candidates[1])
        /\ Cardinality(titles) = Len(unique_items)
        /\ Cardinality(urls) = Cardinality(with_url)
        /\ seen_hashes.urls = urls
        /\ seen_hashes.titles = titles

\* Four candidates went by: the first accepted, a later one rejected on its
\* title in another case, one accepted after it, and the last one rejected
\* on its url.
C24_Witness ==
    /\ Len(candidates) >= 4
    /\ verdict.kind = "url"
    /\ unique_items[1] = candidates[1]
    /\ \E i \in 2..(Len(candidates) - 2) :
          /\ candidates[i] \notin Range(unique_items)
          /\ Docs[candidates[i]].title # Docs[candidates[1]].title
          /\ LowerAll(Docs[candidates[i]].title) = LowerAll(Docs[candidates[1]].title)
          /\ candidates[i + 1] \in Range(unique_items)

====
